---- MODULE Spec2Model ----
(***************************************************************************)
(* The recursive-descent parser of kalk (src/kalk/src/parser.rs).          *)
(*                                                                         *)
(* Strings are sequences of one-character strings, so that an identifier   *)
(* can be split into its characters: "xy" is <<"x","y">>, "" is <<>>.      *)
(* Token kinds are the names of the TokenKind variants.  The cursor `pos`  *)
(* is 0-based as in the source; tokens[pos] of the source is               *)
(* c.tokens[c.pos + 1] here.                                               *)
(*                                                                         *)
(* Every parse_* function of the source takes `&mut Context` and returns   *)
(* Result<_, CalcError>.  Here it is an operator from a context record to  *)
(* a result record [ctx, tag, val]: ctx is the context on return, tag is   *)
(* "Ok", "Err" (the ? operator passes it on) or "Panic" (an index outside  *)
(* the token vector, which aborts the thread).  The field `hi` of the      *)
(* context is the highest value the cursor has had.  Try(r, K) is the ?    *)
(* of the source: `let x = f(context)?; rest` is                           *)
(* Try(f(c), LAMBDA x : rest), with x.ctx the context f left and x.val the *)
(* value it returned.  advance returns the token previous() yields.        *)
(***************************************************************************)
EXTENDS Integers, Sequences, FiniteSets, TLC

VARIABLES tokens, pos, symbol_table, hi, statements, result, pc, call, entry, first

vars == <<tokens, pos, symbol_table, hi, statements, result, pc, call, entry, first>>

----------------------------------------------------------------------------
(* Tokens *)

Tok(k) == [kind |-> k, value |-> <<>>]
Id(v) == [kind |-> "Identifier", value |-> v]
Lit(v) == [kind |-> "Literal", value |-> v]
EOF == Tok("EOF")

is_unit(kind) == kind \in {"Deg", "Rad"}

----------------------------------------------------------------------------
(* AST *)

Literal(v) == <<"Literal", v>>
Binary(l, op, r) == <<"Binary", l, op, r>>
Unary(op, e) == <<"Unary", op, e>>
Var(n) == <<"Var", n>>
FnCall(n, args) == <<"FnCall", n, args>>
Group(e) == <<"Group", e>>
Unit(e, u) == <<"Unit", e, u>>

StmtExpr(e) == <<"Expr", e>>
VarDecl(n, e) == <<"VarDecl", n, e>>
FnDecl(n, params, body) == <<"FnDecl", n, params, body>>

----------------------------------------------------------------------------
(* Symbol table: a map from keys to declaring statements *)

FnKey(name) == name \o <<"(", ")">>

insert(st, key, value) ==
    [k \in (DOMAIN st) \cup {key} |-> IF k = key THEN value ELSE st[k]]

contains_fn(st, name) == FnKey(name) \in DOMAIN st

contains_var(st, name) == name \in DOMAIN st

----------------------------------------------------------------------------------------------------------------------------------------
(* Results *)

Ok(c, v) == [ctx |-> c, tag |-> "Ok", val |-> v]
Err(c, e) == [ctx |-> c, tag |-> "Err", val |-> e]
Panic(c) == [ctx |-> c, tag |-> "Panic", val |-> <<>>]

\* the ? operator: an Err (or a panic) of r is the result, otherwise go on with r
Try(r, K(_)) == IF r.tag # "Ok" THEN r ELSE K(r)

----------------------------------------------------------------------------
(* Cursor primitives *)

IndexOk(c, i) == i >= 0 /\ i < Len(c.tokens)

peek(c) == c.tokens[c.pos + 1]

peek_next(c) == c.tokens[c.pos + 2]

previous(c) == c.tokens[c.pos]

\* context.pos >= context.tokens.len() || peek(context).kind == TokenKind::EOF
is_at_end(c) == IF c.pos >= Len(c.tokens) THEN TRUE ELSE peek(c).kind = "EOF"

match_token(c, kind) == IF is_at_end(c) THEN FALSE ELSE peek(c).kind = kind

\* context.pos += 1; previous(context): the token at pos - 1 after the increment,
\* a panic when that index is outside the vector
advance(c) ==
    LET d == [c EXCEPT !.pos = c.pos + 1,
                       !.hi = IF c.pos + 1 > c.hi THEN c.pos + 1 ELSE c.hi]
    IN IF IndexOk(d, d.pos - 1) THEN Ok(d, previous(d)) ELSE Panic(d)

consume(c, kind) ==
    IF match_token(c, kind)
    THEN advance(c)
    ELSE Err(c, <<"UnexpectedToken", kind>>)

----------------------------------------------------------------------------
(* Expressions *)

RECURSIVE parse_expr(_), parse_sum(_), parse_sum_loop(_, _),
          parse_factor(_), parse_factor_loop(_, _), parse_unary(_),
          parse_exponent(_), parse_factorial(_), parse_primary(_),
          parse_group(_), parse_group_fn(_), parse_identifier(_),
          parse_parameters(_, _), split_chars(_, _)

parse_expr(c) == parse_sum(c)

\* while match_token(Plus) || match_token(Minus) { op; advance; right; left = Binary }
parse_sum_loop(c, left) ==
    IF match_token(c, "Plus") \/ match_token(c, "Minus")
    THEN Try(advance(c), LAMBDA a :
         Try(parse_factor(a.ctx), LAMBDA right :
         parse_sum_loop(right.ctx, Binary(left, peek(c).kind, right.val))))
    ELSE Ok(c, left)

parse_sum(c) ==
    Try(parse_factor(c), LAMBDA left : parse_sum_loop(left.ctx, left.val))

\* a loop of parse_factor that consumes the token it takes for the operator
factor_op_consuming(c) ==
    Try(advance(c), LAMBDA a :
        Ok(a.ctx, IF a.val.kind \in {"Identifier", "Literal"} THEN "Star" ELSE a.val.kind))

\* the operator of one turn of the loop of parse_factor: an identifier or a literal
\* is left in place and gives Star, any other token is consumed and gives its kind
factor_op(c) ==
    IF peek(c).kind \in {"Identifier", "Literal"}
    THEN Ok(c, "Star")
    ELSE Try(advance(c), LAMBDA a : Ok(a.ctx, a.val.kind))

parse_factor_loop(c, left) ==
    IF \/ match_token(c, "Star")
       \/ match_token(c, "Slash")
       \/ match_token(c, "Identifier")
       \/ match_token(c, "Literal")
    THEN Try(factor_op(c), LAMBDA op :
         Try(parse_unary(op.ctx), LAMBDA right :
         parse_factor_loop(right.ctx, Binary(left, op.val, right.val))))
    ELSE Ok(c, left)

parse_factor(c) ==
    Try(parse_unary(c), LAMBDA left : parse_factor_loop(left.ctx, left.val))

parse_unary(c) ==
    IF match_token(c, "Minus")
    THEN Try(advance(c), LAMBDA op :
         Try(parse_unary(op.ctx), LAMBDA expr :
         Ok(expr.ctx, Unary(op.val.kind, expr.val))))
    ELSE parse_exponent(c)

\* an exponent whose right operand is one factorial, not an exponent
parse_exponent_flat(c) ==
    Try(parse_factorial(c), LAMBDA left :
        IF match_token(left.ctx, "Power")
        THEN Try(advance(left.ctx), LAMBDA op :
             Try(parse_factorial(op.ctx), LAMBDA right :
             Ok(right.ctx, Binary(left.val, op.val.kind, right.val))))
        ELSE left)

parse_exponent(c) ==
    Try(parse_factorial(c), LAMBDA left :
        IF match_token(left.ctx, "Power")
        THEN Try(advance(left.ctx), LAMBDA op :
             Try(parse_exponent(op.ctx), LAMBDA right :
             Ok(right.ctx, Binary(left.val, op.val.kind, right.val))))
        ELSE left)

parse_factorial(c) ==
    Try(parse_primary(c), LAMBDA expr :
        IF match_token(expr.ctx, "Exclamation")
        THEN Try(advance(expr.ctx), LAMBDA a :
             Ok(a.ctx, Unary("Exclamation", expr.val)))
        ELSE expr)

\* the match of parse_primary on peek(context).kind
primary_expr(c) ==
    IF ~IndexOk(c, c.pos) THEN Panic(c)
    ELSE CASE peek(c).kind = "OpenParenthesis" -> parse_group(c)
           [] peek(c).kind \in {"Pipe", "OpenCeil", "OpenFloor"} -> parse_group_fn(c)
           [] peek(c).kind = "Identifier" -> parse_identifier(c)
           [] OTHER -> Try(advance(c), LAMBDA a : Ok(a.ctx, Literal(a.val.value)))

parse_primary(c) ==
    Try(primary_expr(c), LAMBDA expr :
        IF ~is_at_end(expr.ctx) /\ is_unit(peek(expr.ctx).kind)
        THEN Try(advance(expr.ctx), LAMBDA a :
             Ok(a.ctx, Unit(expr.val, a.val.kind)))
        ELSE expr)

parse_group(c) ==
    Try(advance(c), LAMBDA a :
    Try(parse_expr(a.ctx), LAMBDA e :
    Try(consume(e.ctx, "ClosedParenthesis"), LAMBDA t :
    Ok(t.ctx, Group(e.val)))))

\* the match of parse_group_fn on the kind of the opening token
group_fn_name(c, kind) ==
    CASE kind = "Pipe" -> Ok(c, <<"a", "b", "s">>)
      [] kind = "OpenCeil" -> Ok(c, <<"c", "e", "i", "l">>)
      [] kind = "OpenFloor" -> Ok(c, <<"f", "l", "o", "o", "r">>)
      [] OTHER -> Panic(c)

parse_group_fn(c) ==
    Try(advance(c), LAMBDA a :
    Try(group_fn_name(a.ctx, a.val.kind), LAMBDA name :
    Try(parse_expr(name.ctx), LAMBDA expr :
    Try(advance(expr.ctx), LAMBDA b :
    Ok(b.ctx, FnCall(name.val, <<expr.val>>))))))

\* while match_token(context, TokenKind::Comma) { advance; parameters.push(parse_expr) }
parse_parameters(c, parameters) ==
    IF match_token(c, "Comma")
    THEN Try(advance(c), LAMBDA a :
         Try(parse_expr(a.ctx), LAMBDA e :
         parse_parameters(e.ctx, Append(parameters, e.val))))
    ELSE Ok(c, parameters)

\* for c in chars { left = Binary(left, Star, Var(c)) }
split_chars(left, chars) ==
    IF chars = <<>> THEN left
    ELSE split_chars(Binary(left, "Star", Var(<<Head(chars)>>)), Tail(chars))

\* an identifier resolution that looks for a known variable before the `(`
identifier_rest_var_first(d, identifier) ==
    IF match_token(d, "Literal") /\ contains_fn(d.symbol_table, identifier.value)
    THEN Try(advance(d), LAMBDA b :
         Ok(b.ctx, FnCall(identifier.value, <<Literal(b.val.value)>>)))
    ELSE IF contains_var(d.symbol_table, identifier.value)
    THEN Ok(d, Var(identifier.value))
    ELSE IF match_token(d, "OpenParenthesis")
    THEN Try(advance(d), LAMBDA b :
         Try(parse_expr(b.ctx), LAMBDA e :
         Try(parse_parameters(e.ctx, <<e.val>>), LAMBDA parameters :
         Try(consume(parameters.ctx, "ClosedParenthesis"), LAMBDA t :
         Ok(t.ctx, FnCall(identifier.value, parameters.val))))))
    ELSE IF identifier.value = <<>> THEN Panic(d)
    ELSE Ok(d, split_chars(Var(<<Head(identifier.value)>>), Tail(identifier.value)))

\* parse_identifier after `let identifier = advance(context).clone()`
identifier_rest(d, identifier) ==
    IF match_token(d, "Literal") /\ contains_fn(d.symbol_table, identifier.value)
    THEN Try(advance(d), LAMBDA b :
         Ok(b.ctx, FnCall(identifier.value, <<Literal(b.val.value)>>)))
    ELSE IF match_token(d, "OpenParenthesis")
    THEN Try(advance(d), LAMBDA b :
         Try(parse_expr(b.ctx), LAMBDA e :
         Try(parse_parameters(e.ctx, <<e.val>>), LAMBDA parameters :
         Try(consume(parameters.ctx, "ClosedParenthesis"), LAMBDA t :
         Ok(t.ctx, FnCall(identifier.value, parameters.val))))))
    ELSE IF contains_var(d.symbol_table, identifier.value)
    THEN Ok(d, Var(identifier.value))
    ELSE IF identifier.value = <<>> THEN Panic(d)
    ELSE Ok(d, split_chars(Var(<<Head(identifier.value)>>), Tail(identifier.value)))

parse_identifier(c) ==
    Try(advance(c), LAMBDA a : identifier_rest(a.ctx, a.val))

----------------------------------------------------------------------------
(* Statements *)

RECURSIVE parameter_identifiers(_), parameter_identifiers_until(_)

\* a loop that stops at the first argument that is not a Var
parameter_identifiers_until(parameters) ==
    IF parameters = <<>> THEN <<>>
    ELSE IF Head(parameters)[1] = "Var"
         THEN <<Head(parameters)[2]>> \o parameter_identifiers_until(Tail(parameters))
         ELSE <<>>

\* for parameter in parameters { if let Expr::Var(id) = parameter { push(id) } }
parameter_identifiers(parameters) ==
    IF parameters = <<>> THEN <<>>
    ELSE IF Head(parameters)[1] = "Var"
         THEN <<Head(parameters)[2]>> \o parameter_identifiers(Tail(parameters))
         ELSE parameter_identifiers(Tail(parameters))

parse_var_decl_stmt(c) ==
    Try(advance(c), LAMBDA identifier :
    Try(advance(identifier.ctx), LAMBDA b :
    Try(parse_expr(b.ctx), LAMBDA expr :
    Ok(expr.ctx, VarDecl(identifier.val.value, expr.val)))))

\* the branch of parse_identifier_stmt taken when `=` follows the primary
fn_decl_stmt(c, primary, expr) ==
    IF primary[1] = "FnCall"
    THEN Ok([c EXCEPT !.symbol_table =
                 insert(@, FnKey(primary[2]),
                        FnDecl(primary[2], parameter_identifiers(primary[3]), expr))],
            FnDecl(primary[2], parameter_identifiers(primary[3]), expr))
    ELSE Err(c, <<"Unknown">>)

\* parse_identifier_stmt without `context.pos = began_at`
identifier_stmt_rest_no_rewind(began_at, primary) ==
    IF ~IndexOk(primary.ctx, primary.ctx.pos) THEN Panic(primary.ctx)
    ELSE IF peek(primary.ctx).kind = "Equals"
    THEN Try(advance(primary.ctx), LAMBDA a :
         Try(parse_expr(a.ctx), LAMBDA expr :
         fn_decl_stmt(expr.ctx, primary.val, expr.val)))
    ELSE Try(parse_expr(primary.ctx), LAMBDA expr :
         Ok(expr.ctx, StmtExpr(expr.val)))

\* parse_identifier_stmt after `let primary = parse_primary(context)?`
identifier_stmt_rest(began_at, primary) ==
    IF ~IndexOk(primary.ctx, primary.ctx.pos) THEN Panic(primary.ctx)
    ELSE IF peek(primary.ctx).kind = "Equals"
    THEN Try(advance(primary.ctx), LAMBDA a :
         Try(parse_expr(a.ctx), LAMBDA expr :
         fn_decl_stmt(expr.ctx, primary.val, expr.val)))
    ELSE Try(parse_expr([primary.ctx EXCEPT !.pos = began_at]), LAMBDA expr :
         Ok(expr.ctx, StmtExpr(expr.val)))

parse_identifier_stmt(c) ==
    Try(parse_primary(c), LAMBDA primary : identifier_stmt_rest(c.pos, primary))

\* Stmt::Expr(Box::new(parse_expr(context)?))
expr_stmt(c) ==
    Try(parse_expr(c), LAMBDA expr : Ok(expr.ctx, StmtExpr(expr.val)))

parse_stmt(c) ==
    IF match_token(c, "Identifier")
    THEN IF ~IndexOk(c, c.pos + 1) THEN Panic(c)
         ELSE CASE peek_next(c).kind = "Equals" -> parse_var_decl_stmt(c)
                [] peek_next(c).kind = "OpenParenthesis" -> parse_identifier_stmt(c)
                [] OTHER -> expr_stmt(c)
    ELSE expr_stmt(c)

----------------
(* Inputs: EOF-terminated token sequences, as Lexer::lex produces them *)

MaxLen == 2
MaxArith == 5
MaxTail == 3

t_f == Id(<<"f">>)
t_x == Id(<<"x">>)
t_xy == Id(<<"x", "y">>)
t_1 == Lit(<<"1">>)
t_2 == Lit(<<"2">>)
t_3 == Lit(<<"3">>)
t_4 == Lit(<<"4">>)
t_5 == Lit(<<"5">>)

SeqsUpTo(S, n) == UNION {[1..k -> S] : k \in 0..n}

FullAlphabet ==
    {t_f, t_xy, t_1} \cup
    {Tok(k) : k \in {"Plus", "Minus", "Star", "Slash", "Power", "Exclamation",
                     "OpenParenthesis", "ClosedParenthesis", "Pipe", "OpenCeil",
                     "OpenFloor", "Comma", "Equals", "Deg", "Rad"}}

ArithAlphabet == {t_1, t_x} \cup {Tok(k) : k \in {"Minus", "Star", "Power"}}

TailAlphabet == {t_1, t_f} \cup {Tok(k) : k \in {"Equals", "Deg", "OpenParenthesis"}}

ArgLists ==
    { <<t_x>>, <<t_xy>>, <<t_1>>, <<t_x, Tok("Deg")>>,
      <<t_x, Tok("Comma"), t_xy>>, <<t_1, Tok("Comma"), t_x>>,
      <<t_x, Tok("Comma"), t_1, Tok("Comma"), t_xy>> }

ShortInputs == SeqsUpTo(FullAlphabet, MaxLen)

ArithInputs == SeqsUpTo(ArithAlphabet, MaxArith)

CallInputs ==
    { <<t_f, Tok("OpenParenthesis")>> \o a \o <<Tok("ClosedParenthesis")>> \o s :
        a \in ArgLists, s \in SeqsUpTo(TailAlphabet, MaxTail) }

\* the token sequences of the tests of the source, and the examples of the grammar
TestInputs ==
    { <<t_x>>,
      <<t_1, Tok("Plus"), t_2, Tok("Star"), Tok("OpenParenthesis"), t_3, Tok("Minus"),
        t_4, Tok("Slash"), t_5, Tok("ClosedParenthesis")>>,
      <<t_1, Tok("Star"), t_2, Tok("Power"), t_3, Tok("Power"), t_4, Tok("Plus"), t_5>>,
      <<Tok("Minus"), t_1, Tok("Deg")>>,
      <<Tok("Minus"), t_1, Tok("Rad")>>,
      <<t_x, Tok("Equals"), t_1, Tok("Plus"), t_2>>,
      <<t_f, Tok("OpenParenthesis"), t_x, Tok("ClosedParenthesis"), Tok("Equals"),
        t_1, Tok("Plus"), t_2>>,
      <<t_f, Tok("OpenParenthesis"), t_1, Tok("Plus"), t_2, Tok("ClosedParenthesis"),
        Tok("Plus"), t_3>>,
      <<t_1, Tok("Plus"), t_2, Tok("Star"), t_3>>,
      <<t_1, Tok("Minus"), t_2, Tok("Plus"), t_3>>,
      <<t_3, t_x>>,
      <<t_2, t_3>>,
      <<t_x, Id(<<"y">>)>>,
      <<Tok("Minus"), t_2, Tok("Power"), t_2>>,
      <<Id(<<"a">>), Tok("Power"), Id(<<"b">>), Tok("Power"), Id(<<"c">>)>>,
      <<t_4, Tok("Slash"), t_2, Tok("Star"), t_3>>,
      <<t_1, Tok("Plus"), t_2, t_x, Tok("Slash"), t_3>> }

Inputs == {s \o <<EOF>> : s \in ShortInputs \cup ArithInputs \cup CallInputs \cup TestInputs}

\* A session starts with an empty symbol table, or with the entries that earlier
\* evaluations left in it: a variable xy and a function f.
EmptyTable == [k \in {} |-> <<>>]

KnownTable ==
    insert(insert(EmptyTable, <<"x", "y">>, VarDecl(<<"x", "y">>, Literal(<<"1">>))),
           FnKey(<<"f">>), FnDecl(<<"f">>, <<<<"x">>>>, Literal(<<"1">>)))

Tables == {EmptyTable, KnownTable}

----------------------------------------------------------------------------
(* The session: Context, and the loop of parse.                            *)
(* tokens, pos, symbol_table: the fields of Context (angle_unit is not read *)
(* by the parser); hi: the highest value of the cursor in the current call; *)
(* statements: the local of parse; result: what the last call returned;     *)
(* call: the number of calls of parse so far; entry[i]: the symbol table    *)
(* when call i began; first: the result of the call before the current one. *)

Ctx == [tokens |-> tokens, pos |-> pos, symbol_table |-> symbol_table, hi |-> hi]

Init ==
    /\ tokens = <<>>
    /\ pos = 0
    /\ symbol_table \in Tables
    /\ hi = 0
    /\ statements = <<>>
    /\ result = <<"None">>
    /\ pc = "idle"
    /\ call = 0
    /\ entry = <<>>
    /\ first = <<"None">>

\* parse without `context.pos = 0`
parse_keeping_cursor ==
    /\ \/ pc = "idle" /\ call = 0
       \/ pc = "done" /\ call = 1
    /\ \E input \in (IF call = 0 THEN Inputs ELSE {tokens}) :
          tokens' = input
    /\ hi' = pos
    /\ statements' = <<>>
    /\ pc' = "parsing"
    /\ call' = call + 1
    /\ entry' = Append(entry, symbol_table)
    /\ first' = result
    /\ UNCHANGED <<pos, symbol_table, result>>

\* parse, up to the loop: the first call takes any input, the second call of the
\* session takes the identical input again
parse ==
    /\ \/ pc = "idle" /\ call = 0
       \/ pc = "done" /\ call = 1
    /\ \E input \in (IF call = 0 THEN Inputs ELSE {tokens}) :
          tokens' = input
    /\ pos' = 0
    /\ hi' = 0
    /\ statements' = <<>>
    /\ pc' = "parsing"
    /\ call' = call + 1
    /\ entry' = Append(entry, symbol_table)
    /\ first' = result
    /\ UNCHANGED <<symbol_table, result>>

\* the context as parse_stmt leaves it
Leaves(r) ==
    /\ pos' = r.ctx.pos
    /\ hi' = r.ctx.hi
    /\ symbol_table' = r.ctx.symbol_table

\* one turn of the loop: statements.push(parse_stmt(context)?)
StmtOk(r) ==
    /\ r.tag = "Ok"
    /\ statements' = Append(statements, r.val)
    /\ Leaves(r)

parse_stmt_ok ==
    /\ pc = "parsing"
    /\ ~is_at_end(Ctx)
    /\ StmtOk(parse_stmt(Ctx))
    /\ UNCHANGED <<tokens, result, pc, call, entry, first>>

\* a loop that undoes the insertions of the call when a statement fails
StmtErr_rollback(r) ==
    /\ r.tag = "Err"
    /\ result' = <<"Err", r.val>>
    /\ pos' = r.ctx.pos
    /\ hi' = r.ctx.hi
    /\ symbol_table' = entry[call]

\* the ? of the loop: the error is returned, the statements parsed so far are dropped
\* by the caller (the variable keeps them as the record of what had been parsed)
StmtErr(r) ==
    /\ r.tag = "Err"
    /\ result' = <<"Err", r.val>>
    /\ Leaves(r)

parse_stmt_err ==
    /\ pc = "parsing"
    /\ ~is_at_end(Ctx)
    /\ StmtErr(parse_stmt(Ctx))
    /\ pc' = "done"
    /\ UNCHANGED <<tokens, statements, call, entry, first>>

\* an index outside the token vector: the thread panics
StmtPanic(r) ==
    /\ r.tag = "Panic"
    /\ result' = <<"Panic">>
    /\ Leaves(r)

parse_stmt_panic ==
    /\ pc = "parsing"
    /\ ~is_at_end(Ctx)
    /\ StmtPanic(parse_stmt(Ctx))
    /\ pc' = "panic"
    /\ UNCHANGED <<tokens, statements, call, entry, first>>

\* Ok(statements)
parse_return ==
    /\ pc = "parsing"
    /\ is_at_end(Ctx)
    /\ result' = <<"Ok", statements>>
    /\ pc' = "done"
    /\ UNCHANGED <<tokens, pos, symbol_table, hi, statements, call, entry, first>>

Next == parse \/ parse_stmt_ok \/ parse_stmt_err \/ parse_stmt_panic \/ parse_return

Spec == Init /\ [][Next]_vars

----------------------------------------------------------------------------
(* parse_identifier on its own: the cursor is at an identifier, as it is when  *)
(* parse_primary calls it                                                      *)

MaxIdentTail == 5

IdentAlphabet ==
    {t_1, t_x} \cup {Tok(k) : k \in {"OpenParenthesis", "ClosedParenthesis", "Comma"}}

IdentInputs ==
    { <<i>> \o s \o <<EOF>> :
        i \in {t_f, t_xy, Id(<<"x", "y", "z">>)},
        s \in SeqsUpTo(IdentAlphabet, MaxIdentTail) }

\* the entries of KnownTable, and a function that has the name of the variable xy
BothTable ==
    insert(KnownTable, FnKey(<<"x", "y">>), FnDecl(<<"x", "y">>, <<<<"x">>>>, Literal(<<"1">>)))

IdentTables == {EmptyTable, KnownTable, BothTable}

InitIdent ==
    /\ tokens \in IdentInputs
    /\ pos = 0
    /\ symbol_table \in IdentTables
    /\ hi = 0
    /\ statements = <<>>
    /\ result = <<"None">>
    /\ pc = "identifier"
    /\ call = 0
    /\ entry = <<>>
    /\ first = <<"None">>

Returned(r) ==
    /\ result' = <<r.tag, r.val>>
    /\ pos' = r.ctx.pos
    /\ hi' = r.ctx.hi
    /\ symbol_table' = r.ctx.symbol_table

call_parse_identifier ==
    /\ pc = "identifier"
    /\ Returned(parse_identifier(Ctx))
    /\ pc' = "returned"
    /\ UNCHANGED <<tokens, statements, call, entry, first>>

NextIdent == call_parse_identifier

SpecIdent == InitIdent /\ [][NextIdent]_vars

----------------------------------------------------------------------------
(* Properties *)

LastIndex == Len(tokens) - 1

IsErr(kind) == result[1] = "Err" /\ result[2][1] = kind

RECURSIVE TableAfter(_, _)

\* the table st after the insertions of the function declarations among stmts
TableAfter(st, stmts) ==
    IF stmts = <<>> THEN st
    ELSE LET d == Head(stmts)
             next == IF d[1] = "FnDecl"
                     THEN [k \in (DOMAIN st) \cup {FnKey(d[2])} |->
                              IF k = FnKey(d[2]) THEN d ELSE st[k]]
                     ELSE st
         IN TableAfter(next, Tail(stmts))

\* C1: every call of parse on an EOF-terminated token sequence ends with Ok or
\* Err; no peek, peek_next, previous or advance indexes outside the vector.
C1_NoUncontrolledFault == pc # "panic"

\* C2: while parsing, the cursor is at least 0 and never beyond the index of the
\* end marker.
C2_CursorWithinEndMarker ==
    pc \in {"parsing", "done", "panic"} => (pos >= 0 /\ pos <= LastIndex /\ hi <= LastIndex)

\* C3: no call of parse returns CalcError::Unknown.
C3_UnknownUnreachable == ~IsErr("Unknown")

\* C4 as stated: the second call of parse on the same session with the identical
\* input returns the result of the first call.
C4_Idempotent == (pc = "done" /\ call = 2) => result = first

\* C4 as amended: the second call returns the result of the first call whenever
\* the symbol table has the same keys at the entry of both calls.
C4_IdempotentSameKeys ==
    (pc = "done" /\ call = 2 /\ DOMAIN entry[1] = DOMAIN entry[2]) => result = first

C4_Witness ==
    /\ pc = "done" /\ call = 2
    /\ DOMAIN entry[1] = DOMAIN entry[2]
    /\ result[1] = "Ok" /\ Len(result[2]) = 1
    /\ result[2][1][1] = "FnDecl"
    /\ result[2][1][4] = FnCall(<<"f">>, <<Literal(<<"1">>)>>)

\* C10: a call that fails returns the error alone, and leaves in the symbol table
\* its entries at the entry of the call and the function declarations of the
\* statements parsed before the failing one, nothing of the failing statement.
C10_FailureKeepsEarlierDecls ==
    (pc = "done" /\ result[1] = "Err") =>
        /\ Len(result) = 2
        /\ result[2] \in {<<"UnexpectedToken", "ClosedParenthesis">>, <<"Unknown">>}
        /\ symbol_table = TableAfter(entry[call], statements)

C10_Witness ==
    /\ pc = "done" /\ call = 1 /\ result[1] = "Err"
    /\ Len(statements) = 1 /\ statements[1][1] = "FnDecl"
    /\ entry[1] = EmptyTable
    /\ DOMAIN symbol_table = {FnKey(<<"f">>)}

----------------------------------------------------------------------------
(* The statement about to be parsed *)

IsCallStart ==
    /\ pc = "parsing"
    /\ match_token(Ctx, "Identifier")
    /\ peek_next(Ctx).kind = "OpenParenthesis"

\* the speculative parse of the call, and the body after the `=`
Speculative == parse_primary(Ctx)

DeclBody == parse_expr([Speculative.ctx EXCEPT !.pos = @ + 1])

VarNames(args) ==
    LET vs == SelectSeq(args, LAMBDA a : a[1] = "Var")
    IN [i \in 1..Len(vs) |-> vs[i][2]]

Declared == FnDecl(peek(Ctx).value, VarNames(Speculative.val[3]), DeclBody.val)

IsFnDeclStart ==
    /\ IsCallStart
    /\ Speculative.tag = "Ok"
    /\ Speculative.val[1] = "FnCall"
    /\ peek(Speculative.ctx).kind = "Equals"
    /\ DeclBody.tag = "Ok"

IsCallStmtStart ==
    /\ IsCallStart
    /\ Speculative.tag = "Ok"
    /\ peek(Speculative.ctx).kind # "Equals"

\* C5: a call shape followed by `=` and a body that parses gives
\* FnDecl(name, the bare Var arguments in order, body), stored under name + "()",
\* whatever was stored there before; no other entry changes.
C5_FnDeclFromCall ==
    [][IsFnDeclStart =>
          /\ statements' = Append(statements, Declared)
          /\ pc' = "parsing"
          /\ DOMAIN symbol_table' = (DOMAIN symbol_table) \cup {FnKey(peek(Ctx).value)}
          /\ symbol_table'[FnKey(peek(Ctx).value)] = Declared
          /\ \A k \in (DOMAIN symbol_table) \ {FnKey(peek(Ctx).value)} :
                symbol_table'[k] = symbol_table[k]]_vars

C5_Witness ==
    /\ tokens = <<t_f, Tok("OpenParenthesis"), t_x, Tok("Comma"), t_1, Tok("Comma"), t_xy,
                  Tok("ClosedParenthesis"), Tok("Equals"), t_1, EOF>>
    /\ entry[1] = KnownTable
    /\ statements = <<FnDecl(<<"f">>, <<<<"x">>, <<"x", "y">>>>, Literal(<<"1">>))>>
    /\ symbol_table[FnKey(<<"f">>)] = statements[1]

\* C6: a call shape not followed by `=` gives what parse_expr gives from the first
\* token of the statement (Stmt::Expr of its expression, or its failure), and the
\* symbol table is unchanged.
C6_CallReparsedAsExpr ==
    [][IsCallStmtStart =>
          /\ symbol_table' = symbol_table
          /\ CASE parse_expr(Ctx).tag = "Ok" ->
                    /\ statements' = Append(statements, StmtExpr(parse_expr(Ctx).val))
                    /\ pos' = parse_expr(Ctx).ctx.pos
                    /\ pc' = "parsing"
               [] parse_expr(Ctx).tag = "Err" ->
                    /\ result' = <<"Err", parse_expr(Ctx).val>>
                    /\ statements' = statements
                    /\ pc' = "done"
               [] OTHER -> pc' = "panic"]_vars

C6_Witness ==
    /\ tokens = <<t_f, Tok("OpenParenthesis"), t_1, Tok("Plus"), t_2,
                  Tok("ClosedParenthesis"), Tok("Plus"), t_3, EOF>>
    /\ statements = <<StmtExpr(Binary(FnCall(<<"f">>, <<Binary(Literal(<<"1">>), "Plus",
                                                           Literal(<<"2">>))>>),
                                      "Plus", Literal(<<"3">>)))>>
    /\ pos = 8
    /\ symbol_table = entry[call]

----------------------------------------------------------------------------
(* Precedence and associativity, against a parser that splits at the operator  *)
(* that binds loosest *)

Input == SubSeq(tokens, 1, Len(tokens) - 1)

IsOperand(t) == t.kind \in {"Literal", "Identifier"}

Max(S) == CHOOSE m \in S : \A k \in S : k <= m

\* a literal, or an identifier that resolves to one variable
SimpleOperand(t, st) ==
    \/ t.kind = "Literal"
    \/ /\ t.kind = "Identifier"
       /\ FnKey(t.value) \notin DOMAIN st
       /\ (Len(t.value) = 1 \/ t.value \in DOMAIN st)

\* operands and binary operators in turn, a minus also before an operand of
\* + - * /
WellFormed(s, st) ==
    /\ Len(s) >= 1
    /\ \A i \in 1..Len(s) :
          /\ s[i].kind \in {"Literal", "Identifier", "Plus", "Minus", "Star", "Slash", "Power"}
          /\ IsOperand(s[i]) => SimpleOperand(s[i], st)
          /\ s[i].kind \in {"Plus", "Star", "Slash", "Power"} => (i > 1 /\ IsOperand(s[i - 1]))
          /\ ~IsOperand(s[i]) =>
                /\ i < Len(s)
                /\ \/ IsOperand(s[i + 1])
                   \/ s[i].kind # "Power" /\ s[i + 1].kind = "Minus"

HasPower(s) == \E i \in 1..Len(s) : s[i].kind = "Power"

OperandExpr(t) == IF t.kind = "Literal" THEN Literal(t.value) ELSE Var(t.value)

RECURSIVE Ref(_)

Ref(s) ==
    LET n == Len(s)
        sums == {i \in 2..n : s[i].kind \in {"Plus", "Minus"} /\ IsOperand(s[i - 1])}
        prods == {i \in 2..n : \/ s[i].kind \in {"Star", "Slash"}
                               \/ IsOperand(s[i]) /\ IsOperand(s[i - 1])}
    IN IF sums # {}
       THEN Binary(Ref(SubSeq(s, 1, Max(sums) - 1)), s[Max(sums)].kind,
                   Ref(SubSeq(s, Max(sums) + 1, n)))
       ELSE IF prods # {}
       THEN IF IsOperand(s[Max(prods)])
            THEN Binary(Ref(SubSeq(s, 1, Max(prods) - 1)), "Star",
                        Ref(SubSeq(s, Max(prods), n)))
            ELSE Binary(Ref(SubSeq(s, 1, Max(prods) - 1)), s[Max(prods)].kind,
                        Ref(SubSeq(s, Max(prods) + 1, n)))
       ELSE IF s[1].kind = "Minus" THEN Unary("Minus", Ref(Tail(s)))
       ELSE IF n = 1 THEN OperandExpr(s[1])
       ELSE Binary(OperandExpr(s[1]), "Power", Ref(SubSeq(s, 3, n)))

Parses(input, expr) ==
    (pc = "done" /\ Input = input) => result = <<"Ok", <<StmtExpr(expr)>>>>

L(d) == Literal(<<d>>)
V(n) == Var(<<n>>)

\* C8: * / and implicit multiplication form one left-associative chain that binds
\* tighter than + and -, and sums are left-associative.
C8_FactorChain ==
    /\ (pc = "done" /\ WellFormed(Input, entry[call]) /\ ~HasPower(Input)) =>
          result = <<"Ok", <<StmtExpr(Ref(Input))>>>>
    /\ Parses(<<t_3, t_x>>, Binary(L("3"), "Star", V("x")))
    /\ Parses(<<t_2, t_3>>, Binary(L("2"), "Star", L("3")))
    /\ Parses(<<t_x, Id(<<"y">>)>>, Binary(V("x"), "Star", V("y")))
    /\ Parses(<<t_1, Tok("Plus"), t_2, Tok("Star"), t_3>>,
              Binary(L("1"), "Plus", Binary(L("2"), "Star", L("3"))))
    /\ Parses(<<t_1, Tok("Minus"), t_2, Tok("Plus"), t_3>>,
              Binary(Binary(L("1"), "Minus", L("2")), "Plus", L("3")))
    /\ Parses(<<t_1, Tok("Plus"), t_2, Tok("Star"), Tok("OpenParenthesis"), t_3,
                Tok("Minus"), t_4, Tok("Slash"), t_5, Tok("ClosedParenthesis")>>,
              Binary(L("1"), "Plus",
                     Binary(L("2"), "Star",
                            Group(Binary(L("3"), "Minus",
                                         Binary(L("4"), "Slash", L("5")))))))

C8_Witness ==
    /\ pc = "done"
    /\ Input = <<t_1, Tok("Minus"), t_1, t_x, t_1>>
    /\ result = <<"Ok", <<StmtExpr(Binary(L("1"), "Minus",
                              Binary(Binary(L("1"), "Star", V("x")), "Star", L("1"))))>>>>

\* C9: ^ is right-associative and binds tighter than prefix minus and than * /.
C9_ExponentRightAssoc ==
    /\ (pc = "done" /\ WellFormed(Input, entry[call]) /\ HasPower(Input)) =>
          result = <<"Ok", <<StmtExpr(Ref(Input))>>>>
    /\ Parses(<<Tok("Minus"), t_2, Tok("Power"), t_2>>,
              Unary("Minus", Binary(L("2"), "Power", L("2"))))
    /\ Parses(<<Id(<<"a">>), Tok("Power"), Id(<<"b">>), Tok("Power"), Id(<<"c">>)>>,
              Binary(V("a"), "Power", Binary(V("b"), "Power", V("c"))))
    /\ Parses(<<t_1, Tok("Star"), t_2, Tok("Power"), t_3, Tok("Power"), t_4, Tok("Plus"), t_5>>,
              Binary(Binary(L("1"), "Star",
                            Binary(L("2"), "Power", Binary(L("3"), "Power", L("4")))),
                     "Plus", L("5")))

C9_Witness ==
    /\ pc = "done"
    /\ Input = <<t_x, Tok("Power"), t_1, Tok("Power"), t_x>>
    /\ result = <<"Ok", <<StmtExpr(Binary(V("x"), "Power", Binary(L("1"), "Power", V("x"))))>>>>

----------------------------------------------------------------------------
(* Identifier resolution *)

\* the chain ((Var c1 * Var c2) * ...) * Var cn
Chain(v) ==
    LET F[i \in 1..Len(v)] ==
            IF i = 1 THEN Var(<<v[1]>>) ELSE Binary(F[i - 1], "Star", Var(<<v[i]>>))
    IN F[Len(v)]

\* what a one-token argument stands for
ArgExpr(t) ==
    IF t.kind = "Literal" THEN Literal(t.value)
    ELSE IF t.value \in DOMAIN symbol_table THEN Var(t.value)
    ELSE Chain(t.value)

IsLiteralCall ==
    tokens[2].kind = "Literal" /\ FnKey(tokens[1].value) \in DOMAIN symbol_table

IsParenCall == ~IsLiteralCall /\ tokens[2].kind = "OpenParenthesis"

\* the index of the first `)`, 0 when there is none
FirstClose ==
    LET cs == {i \in 1..Len(tokens) : tokens[i].kind = "ClosedParenthesis"}
    IN IF cs = {} THEN 0 ELSE CHOOSE i \in cs : \A j \in cs : i <= j

\* tokens 3 .. FirstClose - 1 are one-token arguments with commas between them
IsPlainArgList ==
    /\ FirstClose >= 4
    /\ (FirstClose - 3) % 2 = 1
    /\ \A i \in 3..(FirstClose - 1) :
          IF (i - 3) % 2 = 0 THEN IsOperand(tokens[i]) /\ ~IsOperand(tokens[i + 1])
          ELSE tokens[i].kind = "Comma"

PlainArgs == [i \in 1..((FirstClose - 2) \div 2) |-> ArgExpr(tokens[2 * i + 1])]

\* C7: identifier resolution: (1) a known function before a literal is a call with
\* that literal, (2) otherwise an identifier before `(` is a call with the
\* arguments up to `)`, (3) otherwise a known variable is Var, (4) otherwise the
\* characters are multiplied from the left; (3) and (4) consume one token.
C7_IdentifierResolution ==
    pc = "returned" =>
        CASE IsLiteralCall ->
                /\ result = <<"Ok", FnCall(tokens[1].value, <<Literal(tokens[2].value)>>)>>
                /\ pos = 2
          [] IsParenCall ->
                /\ result[1] = "Ok" =>
                      /\ result[2][1] = "FnCall"
                      /\ result[2][2] = tokens[1].value
                      /\ Len(result[2][3]) >= 1
                      /\ tokens[pos].kind = "ClosedParenthesis"
                /\ result[1] = "Err" => result[2] = <<"UnexpectedToken", "ClosedParenthesis">>
                /\ IsPlainArgList =>
                      /\ result = <<"Ok", FnCall(tokens[1].value, PlainArgs)>>
                      /\ pos = FirstClose
          [] ~IsLiteralCall /\ ~IsParenCall /\ tokens[1].value \in DOMAIN symbol_table ->
                /\ result = <<"Ok", Var(tokens[1].value)>>
                /\ pos = 1
          [] OTHER ->
                /\ result = <<"Ok", Chain(tokens[1].value)>>
                /\ pos = 1

C7_Witness ==
    /\ pc = "returned"
    /\ tokens = <<t_xy, Tok("OpenParenthesis"), t_1, Tok("Comma"), t_x,
                  Tok("ClosedParenthesis"), EOF>>
    /\ <<"x", "y">> \in DOMAIN symbol_table
    /\ result = <<"Ok", FnCall(<<"x", "y">>, <<L("1"), V("x")>>)>>
    /\ pos = 6

====
